---------------------------- MODULE Spec2Model ----------------------------
(***************************************************************************)
(* Model of the OAuthManager token lifecycle managers of the repository.   *)
(*                                                                         *)
(* The repository holds three implementations of the manager:              *)
(*   "core"   the async class (constructor / fetchToken /                  *)
(*            refreshAccessToken / revokeToken / fetchUserInfo),           *)
(*   "legacy" the TypeScript popup manager (init / authorize /             *)
(*            getAccessTokenFromCode / tokenRefresh / revokeToken / ...),  *)
(*   "js"     src/index.js, the JavaScript popup manager.                  *)
(* One behaviour of the model follows one of them (variable variant).      *)
(*                                                                         *)
(* JavaScript values are records [t, s, n]: t is the type tag, s the text  *)
(* of a string, n the value of a number (or the index of a token string,   *)
(* or the number a decimal string spells).                                 *)
(***************************************************************************)
EXTENDS Integers, Sequences, FiniteSets, TLC

VARIABLES
    variant,        \* which implementation this behaviour follows
    now,            \* Date.now() / new Date().getTime(), epoch milliseconds
    storage,        \* the storage collaborator: key -> stored string, JNull = absent
    accessToken,    \* this.accessToken
    refreshToken,   \* this.refreshToken
    expiry,         \* this.expiry (core only)
    idToken,        \* this.idToken (core only)
    codeVerifier,   \* this.codeVerifier (legacy, js)
    clientHeader,   \* the access token init() put in this.clientHeader (legacy, js)
    cfg,            \* the configuration the manager was set up with
    authCalls,      \* authorize() calls made so far
    windows,        \* the popup windows window.open has returned
    timers,         \* one entry per setInterval(checkPopupUrl, 500) made
    presented,      \* every authorization URL handed out so far, in order
    reqs,           \* every HTTP request sent so far, in order
    pending,        \* indices of reqs whose fetch() promise is not settled yet
    ev              \* the last call or handler that ran, and how it ended

vars == <<variant, now, storage, accessToken, refreshToken, expiry, idToken,
          codeVerifier, clientHeader, cfg, authCalls, windows, timers,
          presented, reqs, pending, ev>>

---------------------------------------------------------------------------
(* Bounds *)

MaxReq == 2         \* HTTP requests sent in one behaviour
MaxMs == 1          \* millisecond clock steps within one second
MaxSec == 1         \* whole-second clock steps
MaxAuth == 2        \* authorize() calls in one behaviour

---------------------------------------------------------------------------
(* JavaScript values *)

JNull == [t |-> "null", s |-> "", n |-> 0]
JUndef == [t |-> "undefined", s |-> "", n |-> 0]
JNaN == [t |-> "NaN", s |-> "", n |-> 0]
JNum(k) == [t |-> "number", s |-> "", n |-> k]
JStr(x) == [t |-> "string", s |-> x, n |-> 0]
\* the string spelling the decimal number k, as String(k) produces it
JDec(k) == [t |-> "decimal", s |-> "", n |-> k]
\* the opaque token string "<p><k>" issued by the server
Tok(p, k) == [t |-> "string", s |-> p, n |-> k]

\* JavaScript truthiness (!v is ~Truthy(v)); a non-empty string, "0" included, is truthy
Truthy(v) ==
    CASE v.t = "string" -> ~(v.s = "" /\ v.n = 0)
      [] v.t = "decimal" -> TRUE
      [] v.t = "number" -> v.n # 0
      [] OTHER -> FALSE

\* String(v): what localStorage.setItem stores for a value
ToStr(v) ==
    CASE v.t = "null" -> JStr("null")
      [] v.t = "undefined" -> JStr("undefined")
      [] v.t = "NaN" -> JStr("NaN")
      [] v.t = "number" -> JDec(v.n)
      [] OTHER -> v

\* parseInt(s) of a string
ParseInt(v) == IF v.t = "decimal" THEN JNum(v.n) ELSE JNaN

\* ToNumber(v), the coercion of the relational operators
ToNumber(v) ==
    CASE v.t = "number" -> v
      [] v.t = "decimal" -> JNum(v.n)
      [] v.t = "null" -> JNum(0)
      [] v.t = "string" /\ v.s = "" /\ v.n = 0 -> JNum(0)
      [] OTHER -> JNaN

\* a < b on numbers after coercion; any NaN operand gives false
JsLess(a, b) ==
    LET x == ToNumber(a)
        y == ToNumber(b)
    IN  x.t = "number" /\ y.t = "number" /\ x.n < y.n

\* a + b for a number b; undefined + number is NaN
JsAdd(a, b) == IF a.t = "number" /\ b.t = "number" THEN JNum(a.n + b.n) ELSE JNaN

\* a * k for a numeric literal k
JsMul(a, k) == IF a.t = "number" THEN JNum(a.n * k) ELSE JNaN

\* v || null
OrNull(v) == IF Truthy(v) THEN v ELSE JNull

\* v ?? d
Coalesce(v, d) == IF v.t \in {"null", "undefined"} THEN d ELSE v

---------------------------------------------------------------------------
(* The storage collaborator (window.localStorage behind get/set/remove) *)

Keys == {"access_token", "refresh_token", "expiry", "id_token",
         "expires_in", "expires_at", "code_verifier"}

EmptyStorage == [k \in Keys |-> JNull]

StorageGet(st, k) == st[k]
StorageSet(st, k, v) == [st EXCEPT ![k] = ToStr(v)]
StorageRemove(st, k) == [st EXCEPT ![k] = JNull]

---------------------------------------------------------------------------
(* The environment: codes, the server's answers, the clock *)

Codes == {JStr("c1")}
ExpiresIn == 1      \* expires_in of a token response, in seconds
Epoch == 1          \* the clock when the manager is constructed

NoData == [access_token |-> JUndef, refresh_token |-> JUndef,
           expires_in |-> JUndef, expires_at |-> JUndef, id_token |-> JUndef,
           error |-> JUndef, sub |-> JUndef]

\* the id_token of a token response: only the core class reads it
IdTokens(i) == IF variant = "core" THEN {JUndef, Tok("I", i)} ELSE {JUndef}

\* JSON bodies the token endpoint can answer request i with
TokenBodies(i) ==
    { [access_token |-> Tok("A", i), refresh_token |-> r,
       expires_in |-> e, expires_at |-> JUndef, id_token |-> d,
       error |-> JUndef, sub |-> JUndef] :
        r \in {JUndef, Tok("R", i)}, e \in {JUndef, JNum(ExpiresIn)},
        d \in IdTokens(i) }

ErrorBody == [NoData EXCEPT !.error = JStr("invalid_grant")]

Statuses == {200, 500}

\* how a fetch() can end: the transport fails, or a response with a status and
\* a body that response.json() can or cannot parse. A token body comes with
\* status 200, an error body with either status.
Outcomes(i) ==
    { [req |-> i, kind |-> "reject", status |-> 0, data |-> NoData] }
    \cup { [req |-> i, kind |-> "nojson", status |-> s, data |-> NoData] :
             s \in Statuses }
    \cup { [req |-> i, kind |-> "json", status |-> 200, data |-> d] :
             d \in TokenBodies(i) }
    \cup { [req |-> i, kind |-> "json", status |-> s, data |-> ErrorBody] :
             s \in Statuses }

\* the claims the user-info endpoint answers with
UserInfoBody == [NoData EXCEPT !.sub = JStr("user")]

\* how the fetch() of a user-info request can end
UserInfoOutcomes(i) ==
    { [req |-> i, kind |-> "reject", status |-> 0, data |-> NoData] }
    \cup { [req |-> i, kind |-> "nojson", status |-> s, data |-> NoData] :
             s \in Statuses }
    \cup { [req |-> i, kind |-> "json", status |-> 200, data |-> UserInfoBody] }
    \cup { [req |-> i, kind |-> "json", status |-> s, data |-> ErrorBody] :
             s \in Statuses }

\* the step that ran last: the call, handler or environment step (op), how it
\* ended (res) and, for a response handler, the request it handles and how its
\* fetch() ended
Event(op, res, o) ==
    [op |-> op, res |-> res, req |-> o.req, kind |-> o.kind, status |-> o.status,
     data |-> o.data]
NoOutcome == [req |-> 0, kind |-> "none", status |-> 0, data |-> NoData]

\* an HTTP request: the operation, the body fields (JUndef: not in the body),
\* the access token in the Authorization header (JUndef: no such header) and
\* the X-HMAC-Signature header (JUndef: no such header)
Request(op, code, rt, tok, cv, bearer) ==
    [op |-> op, code |-> code, refresh_token |-> rt, token |-> tok,
     code_verifier |-> cv, bearer |-> bearer, signature |-> JUndef]

\* JSON.stringify(body) of a request: the string is determined by the body fields
JsonStringify(r) ==
    [t |-> "json", grant |-> r.op, code |-> r.code,
     refresh_token |-> r.refresh_token, token |-> r.token]

\* fetch() is called once for each request of rs, in order
SendAll(rs) ==
    /\ Len(reqs) + Len(rs) <= MaxReq
    /\ reqs' = reqs \o rs
    /\ pending' = pending \cup (Len(reqs) + 1 .. Len(reqs) + Len(rs))

Send(r) == SendAll(<<r>>)

---------------------------------------------------------------------------
(* The configuration *)

Variants == {"core", "legacy", "js"}

\* the properties a manager can be set up with: clientId / clientID and
\* redirectUri / redirectURI as the caller passes them, the PKCE switch, the
\* window opener and the HMAC secret of the core class
ClientIds == {JUndef, JNull, JStr(""), JStr("app")}
RedirectUris == {JUndef, JNull, JStr(""), JStr("cb")}
HmacSecrets == {JUndef, JStr("k")}
Scopes == {JUndef, JStr(""), JStr("openid")}
States == {JUndef, JStr("xyz")}

Configs ==
    [clientId : ClientIds, redirectUri : RedirectUris, withPKCE : BOOLEAN,
     openWindow : {"undefined", "function"}, hmacSecret : HmacSecrets,
     scope : Scopes, state : States]

\* the properties variant v reads: the core class has no PKCE and no window
\* opener, the popup managers have no HMAC secret and no state
PropsOf(v) ==
    { p \in Configs :
        IF v = "core" THEN ~p.withPKCE /\ p.openWindow = "function"
        ELSE p.hmacSecret = JUndef /\ p.state = JUndef }

\* the scope and state of the application the token lifecycle is followed for
AppScope == JStr("openid")
AppState(v) == IF v = "core" THEN JStr("xyz") ELSE JUndef

\* the validation at the head of init(); the constructor of the core class has none
InitThrows(v, p) ==
    v # "core" /\ (p.clientId = JStr("") \/ p.redirectUri = JStr(""))

---------------------------------------------------------------------------
(* core: the async OAuthManager class *)

\* loadTokens(): the in-memory fields read back from storage
loadTokens(st) ==
    [accessToken |-> StorageGet(st, "access_token"),
     refreshToken |-> StorageGet(st, "refresh_token"),
     expiry |-> ParseInt(Coalesce(StorageGet(st, "expiry"), JDec(0))),
     idToken |-> StorageGet(st, "id_token")]

\* saveTokens(data)
saveTokens(data) ==
    LET at == data.access_token
        rt == OrNull(data.refresh_token)
        ex == IF Truthy(data.expires_in)
              THEN JsAdd(JNum(now), JsMul(data.expires_in, 1000))
              ELSE JNull
        it == OrNull(data.id_token)
        s1 == StorageSet(storage, "access_token", at)
        s2 == IF Truthy(rt) THEN StorageSet(s1, "refresh_token", rt) ELSE s1
        s3 == IF Truthy(ex) THEN StorageSet(s2, "expiry", ToStr(ex)) ELSE s2
        s4 == IF Truthy(it) THEN StorageSet(s3, "id_token", it) ELSE s3
    IN  /\ accessToken' = at
        /\ refreshToken' = rt
        /\ expiry' = ex
        /\ idToken' = it
        /\ storage' = s4

\* clearTokens()
clearTokens ==
    /\ accessToken' = JNull
    /\ refreshToken' = JNull
    /\ expiry' = JNull
    /\ idToken' = JNull
    /\ storage' = StorageRemove(StorageRemove(StorageRemove(StorageRemove(
                      storage, "access_token"), "refresh_token"), "expiry"), "id_token")

Memory == <<accessToken, refreshToken, expiry, idToken>>
Popup == <<codeVerifier, clientHeader, cfg, authCalls, windows, timers, presented>>

\* one query parameter as URLSearchParams holds it: the value is stringified
Param(name, v) == <<name, ToStr(v)>>

\* an authorization URL handed out, and the verifier storage holds at that moment
Presented(url, st) == [url |-> url, stored |-> StorageGet(st, "code_verifier")]

\* getAuthorizationUrl(): the query of the URL, in the order of the object literal
AuthorizationUrl ==
    << Param("response_type", JStr("code")), Param("client_id", cfg.clientId),
       Param("redirect_uri", cfg.redirectUri), Param("scope", cfg.scope),
       Param("state", cfg.state) >>

\* getAuthorizationUrl() called by the application
getAuthorizationUrl ==
    /\ variant = "core"
    /\ Len(presented) < MaxAuth
    /\ presented' = Append(presented, Presented(AuthorizationUrl, storage))
    /\ ev' = Event("getAuthorizationUrl", "returned", NoOutcome)
    /\ UNCHANGED <<variant, now, storage, Memory, codeVerifier, clientHeader, cfg,
                   authCalls, windows, timers, reqs, pending>>

\* this.hmacSecret, as the constructor sets it
hmacSecret == OrNull(cfg.hmacSecret)

\* generateHmacSignature(data): the hex HMAC-SHA256 of data under the secret
generateHmacSignature(data) == [t |-> "hmac", secret |-> hmacSecret, data |-> data]

\* the headers without the if (this.hmacSecret) branch
WithSignature_unsigned(r, data) == r

\* the headers of a request of the core class: X-HMAC-Signature is set, to the
\* signature of data, when a secret is configured
WithSignature(r, data) ==
    IF Truthy(hmacSecret) THEN [r EXCEPT !.signature = generateHmacSignature(data)]
    ELSE r

\* headers and body built from one body object: JSON.stringify(body) is signed
\* and JSON.stringify(body) is sent
SignedJson(r) == WithSignature(r, JsonStringify(r))

\* new OAuthManager(props, storage) over the storage as it is (a page reload)
constructor ==
    /\ variant = "core"
    /\ pending = {}
    /\ LET m == loadTokens(storage)
       IN  /\ accessToken' = m.accessToken
           /\ refreshToken' = m.refreshToken
           /\ expiry' = m.expiry
           /\ idToken' = m.idToken
    /\ ev' = Event("constructor", "returned", NoOutcome)
    /\ UNCHANGED <<variant, now, storage, reqs, pending, Popup>>

\* fetchToken(code), up to its first await
fetchToken ==
    /\ variant = "core"
    /\ \E code \in Codes :
         Send(SignedJson(Request("exchange", code, JUndef, JUndef, JUndef, JUndef)))
    /\ ev' = Event("fetchToken", "sent", NoOutcome)
    /\ UNCHANGED <<variant, now, storage, Memory, Popup>>

\* the rest of fetchToken / refreshAccessToken once fetch() has settled:
\* await response.json(), then saveTokens(data)
AwaitAndSave(i, op) ==
    /\ pending' = pending \ {i}
    /\ \E o \in Outcomes(i) :
         IF o.kind = "json"
         THEN /\ saveTokens(o.data)
              /\ ev' = Event(op, "resolved", o)
         ELSE /\ ev' = Event(op, "rejected", o)
              /\ UNCHANGED <<storage, Memory>>
    /\ UNCHANGED <<variant, now, reqs, Popup>>

fetchTokenResume ==
    /\ variant = "core"
    /\ \E i \in pending :
         /\ reqs[i].op = "exchange"
         /\ AwaitAndSave(i, "fetchTokenResume")

\* the precondition of refreshAccessToken
NoRefreshToken == ~Truthy(refreshToken)

\* refreshAccessToken(), up to its first await
refreshAccessToken ==
    /\ variant = "core"
    /\ IF NoRefreshToken
       THEN /\ ev' = Event("refreshAccessToken", "NoRefreshToken", NoOutcome)
            /\ UNCHANGED <<reqs, pending>>
       ELSE /\ Send(SignedJson(Request("refresh", JUndef, refreshToken, JUndef,
                                       JUndef, JUndef)))
            /\ ev' = Event("refreshAccessToken", "sent", NoOutcome)
    /\ UNCHANGED <<variant, now, storage, Memory, Popup>>

refreshAccessTokenResume ==
    /\ variant = "core"
    /\ \E i \in pending :
         /\ reqs[i].op = "refresh"
         /\ AwaitAndSave(i, "refreshAccessTokenResume")

\* revokeToken without its precondition
NoAccessToken_skipped == FALSE

\* the precondition of revokeToken
NoAccessToken == ~Truthy(accessToken)

\* async revokeToken(), up to its await
revokeTokenAsync ==
    /\ variant = "core"
    /\ IF NoAccessToken
       THEN /\ ev' = Event("revokeTokenAsync", "NoAccessToken", NoOutcome)
            /\ UNCHANGED <<reqs, pending>>
       ELSE /\ Send(SignedJson(Request("revoke", JUndef, JUndef, accessToken,
                                       JUndef, JUndef)))
            /\ ev' = Event("revokeTokenAsync", "sent", NoOutcome)
    /\ UNCHANGED <<variant, now, storage, Memory, Popup>>

\* the rest of async revokeToken: the response body is not read
revokeTokenAsyncResume ==
    /\ variant = "core"
    /\ \E i \in pending :
         /\ reqs[i].op = "revoke"
         /\ pending' = pending \ {i}
         /\ \E o \in Outcomes(i) :
              IF o.kind = "reject"
              THEN /\ ev' = Event("revokeTokenAsyncResume", "rejected", o)
                   /\ UNCHANGED <<storage, Memory>>
              ELSE /\ clearTokens
                   /\ ev' = Event("revokeTokenAsyncResume", "resolved", o)
    /\ UNCHANGED <<variant, now, reqs, Popup>>

\* fetchUserInfo(), up to its await: a GET with the access token as bearer,
\* signed, when a secret is configured, over the access token
fetchUserInfo ==
    /\ variant = "core"
    /\ IF NoAccessToken
       THEN /\ ev' = Event("fetchUserInfo", "NoAccessToken", NoOutcome)
            /\ UNCHANGED <<reqs, pending>>
       ELSE /\ Send(WithSignature(Request("userinfo", JUndef, JUndef, JUndef, JUndef,
                                          accessToken), accessToken))
            /\ ev' = Event("fetchUserInfo", "sent", NoOutcome)
    /\ UNCHANGED <<variant, now, storage, Memory, Popup>>

\* the rest of fetchUserInfo: return response.json()
fetchUserInfoResume ==
    /\ variant = "core"
    /\ \E i \in pending :
         /\ reqs[i].op = "userinfo"
         /\ pending' = pending \ {i}
         /\ \E o \in UserInfoOutcomes(i) :
              ev' = Event("fetchUserInfoResume",
                          IF o.kind = "json" THEN "resolved" ELSE "rejected", o)
    /\ UNCHANGED <<variant, now, storage, Memory, reqs, Popup>>

---------------------------------------------------------------------------
(* legacy and js: the popup managers *)

IsPopupVariant == variant \in {"legacy", "js"}

\* the storage key the code exchange writes the absolute expiry under
ExpiryKey == IF variant = "js" THEN "expiry" ELSE "expires_at"

\* init(): the fields read from storage
init ==
    /\ IsPopupVariant
    /\ ~InitThrows(variant, cfg)
    /\ pending = {}
    /\ \A k \in 1 .. Len(timers) : ~timers[k].active
    /\ accessToken' = StorageGet(storage, "access_token")
    /\ refreshToken' = StorageGet(storage, "refresh_token")
    /\ clientHeader' = StorageGet(storage, "access_token")
    /\ codeVerifier' = JUndef
    /\ ev' = Event("init", "returned", NoOutcome)
    /\ UNCHANGED <<variant, now, storage, expiry, idToken, cfg, authCalls,
                   windows, timers, presented, reqs, pending>>

\* a code exchange request that never carries a verifier
ExchangeRequest_unbound(code, cv) ==
    Request("exchange", ToStr(code), JUndef, JUndef, JUndef, JUndef)

\* the request getAccessTokenFromCode(code) / getAccessToken(code) sends, with
\* this.codeVerifier = cv
ExchangeRequest(code, cv) ==
    Request("exchange", ToStr(code), JUndef, JUndef,
            IF variant = "js" \/ cfg.withPKCE THEN ToStr(cv) ELSE JUndef,
            JUndef)

\* a generator that returns the same string at every call
generateRandomString_fixed(k) == Tok("V", 1)

\* generateRandomString(64) of the k-th authorize() call
generateRandomString(k) == Tok("V", k)

\* sha256(plain): the base64url SHA-256 digest of a string
sha256(plain) == [t |-> "string", s |-> "sha256:" \o plain.s, n |-> plain.n]

\* the query of the URL authorize() builds, with this.codeVerifier = cv
AuthorizeUrl(cv) ==
    << Param("client_id", cfg.clientId), Param("redirect_uri", cfg.redirectUri),
       Param("response_type", JStr("code")) >>
    \o (IF Truthy(cfg.scope) THEN << Param("scope", cfg.scope) >> ELSE << >>)
    \o (IF cfg.withPKCE
        THEN << Param("code_challenge", sha256(cv)),
                Param("code_challenge_method", JStr("S256")) >>
        ELSE << >>)

NewWindow == [loc |-> "auth", code |-> JNull, closed |-> FALSE]
\* the timer setInterval returns; overlaps: another timer was polling then
NewTimer(w, cv) ==
    [win |-> w, active |-> TRUE, verifier |-> cv,
     overlaps |-> \E k \in 1 .. Len(timers) : timers[k].active]

\* What one call of authorize() can do from the current state: the verifier and
\* storage it leaves, the windows and timers afterwards, the requests it sends,
\* how the custom opener ended (opener) and how the call ends (res).
\* window.open and the custom opener are the environment's.
AuthorizeResults ==
    LET cv == IF cfg.withPKCE THEN generateRandomString(authCalls + 1)
              ELSE codeVerifier
        st == IF cfg.withPKCE THEN StorageSet(storage, "code_verifier", cv)
              ELSE storage
        R(res, ws, ts, rs, op) ==
            [cv |-> cv, st |-> st, windows |-> ws, timers |-> ts,
             sends |-> rs, res |-> res, opener |-> op]
    IN  IF cfg.openWindow = "undefined"
        THEN \* window.open returns null: alert and return
             { R("blocked", windows, timers, <<>>, "none") }
             \* window.open returns a new window
             \cup { R("polling", Append(windows, NewWindow),
                      Append(timers, NewTimer(Len(windows) + 1, cv)), <<>>, "none") }
             \* window.open returns the window of that name, still open
             \cup { R("polling", [windows EXCEPT ![w] = NewWindow],
                      Append(timers, NewTimer(w, cv)), <<>>, "none") :
                    w \in { x \in 1 .. Len(windows) : ~windows[x].closed } }
        ELSE \* openWindow(url.href) returns a code
             { R(IF variant = "js" THEN "ReferenceError" ELSE "returned",
                 windows, timers, <<ExchangeRequest(c, cv)>>, "openerReturnedCode") :
               c \in Codes }
             \* openWindow returns nothing
             \cup { R("returned", windows, timers, <<>>, "openerReturnedNothing") }
             \* openWindow throws
             \cup { R(IF variant = "js" THEN "ReferenceError" ELSE "logged",
                      windows, timers, <<>>, "openerThrew") }

ApplyAuthorize(r) ==
    /\ authCalls < MaxAuth
    /\ authCalls' = authCalls + 1
    /\ presented' = Append(presented, Presented(AuthorizeUrl(r.cv), r.st))
    /\ codeVerifier' = r.cv
    /\ storage' = r.st
    /\ windows' = r.windows
    /\ timers' = r.timers

authorize ==
    /\ IsPopupVariant
    /\ \E r \in AuthorizeResults :
         /\ ApplyAuthorize(r)
         /\ SendAll(r.sends)
         /\ ev' = Event("authorize", r.res, [NoOutcome EXCEPT !.kind = r.opener])
    /\ UNCHANGED <<variant, now, Memory, clientHeader, cfg>>

\* the windows some running timer polls
Watched == { timers[k].win : k \in { x \in 1 .. Len(timers) : timers[x].active } }

\* a popup navigates to the redirect URI, with or without a code
PopupRedirects ==
    /\ \E w \in Watched, c \in Codes \cup {JNull} :
         /\ ~windows[w].closed
         /\ windows[w].loc = "auth"
         /\ windows' = [windows EXCEPT ![w] = [loc |-> "redirect", code |-> c,
                                                closed |-> FALSE]]
    /\ ev' = Event("PopupRedirects", "", NoOutcome)
    /\ UNCHANGED <<variant, now, storage, Memory, codeVerifier, clientHeader, cfg,
                   authCalls, timers, presented, reqs, pending>>

\* the user closes a popup
PopupClosed ==
    /\ \E w \in Watched :
         /\ ~windows[w].closed
         /\ windows' = [windows EXCEPT ![w].closed = TRUE]
    /\ ev' = Event("PopupClosed", "", NoOutcome)
    /\ UNCHANGED <<variant, now, storage, Memory, codeVerifier, clientHeader, cfg,
                   authCalls, timers, presented, reqs, pending>>

\* a catch block that takes the error for a cancellation and stops timer k
CatchLocationError_cancels(k) == [timers EXCEPT ![k].active = FALSE]

\* the catch block of checkPopupUrl, entered from timer k: console.error only
CatchLocationError(k) == timers

\* a reading of the code parameter that turns it into text
urlParamsGet_text(w) == ToStr(windows[w].code)

\* urlParams.get("code") on the location of popup w: the code, or null when
\* the redirect carries none
urlParamsGet(w) == windows[w].code

\* one run of checkPopupUrl for timer k
checkPopupUrl ==
    /\ IsPopupVariant
    /\ \E k \in 1 .. Len(timers) :
         LET w == timers[k].win
         IN  /\ timers[k].active
             /\ IF windows[w].closed
                THEN \* authWindow.window of a closed window is the window or
                     \* null, as the browser has it. The window: the try block
                     \* runs clearInterval(checkInterval); return
                     \/ /\ timers' = [timers EXCEPT ![k].active = FALSE]
                        /\ ev' = Event("checkPopupUrl", "closed", NoOutcome)
                        /\ UNCHANGED <<windows, reqs, pending>>
                     \* null: authWindow.window.location in the console.log
                     \* before the try block throws, nothing is cleared
                     \/ /\ ev' = Event("checkPopupUrl", "threw", NoOutcome)
                        /\ UNCHANGED <<windows, timers, reqs, pending>>
                ELSE IF windows[w].loc = "auth"
                THEN \* reading location.href throws; the error is logged
                     /\ timers' = CatchLocationError(k)
                     /\ ev' = Event("checkPopupUrl", "logged", NoOutcome)
                     /\ UNCHANGED <<windows, reqs, pending>>
                ELSE \* popupUrl.startsWith(this.redirectURI)
                     /\ timers' = [timers EXCEPT ![k].active = FALSE]
                     /\ windows' = [windows EXCEPT ![w].closed = TRUE]
                     /\ IF Truthy(urlParamsGet(w))
                        THEN /\ Send(ExchangeRequest(urlParamsGet(w), codeVerifier))
                             /\ ev' = Event("checkPopupUrl", "exchange", NoOutcome)
                        ELSE /\ ev' = Event("checkPopupUrl", "nocode", NoOutcome)
                             /\ UNCHANGED <<reqs, pending>>
    /\ UNCHANGED <<variant, now, storage, Memory, codeVerifier, clientHeader, cfg,
                   authCalls, presented>>

\* getAccessTokenFromCode(code) / getAccessToken(code) called directly
getAccessTokenFromCode ==
    /\ IsPopupVariant
    /\ \E code \in Codes : Send(ExchangeRequest(code, codeVerifier))
    /\ ev' = Event("getAccessTokenFromCode", "sent", NoOutcome)
    /\ UNCHANGED <<variant, now, storage, Memory, Popup>>

\* .then((response) => response.json()).then((data) => {...}).catch(log) of the
\* code exchange
getAccessTokenFromCodeThen ==
    /\ IsPopupVariant
    /\ \E i \in pending :
         /\ reqs[i].op = "exchange"
         /\ pending' = pending \ {i}
         /\ \E o \in Outcomes(i) :
              IF o.kind = "json"
              THEN /\ accessToken' = o.data.access_token
                   /\ refreshToken' = o.data.refresh_token
                   /\ storage' =
                        StorageSet(StorageSet(StorageSet(StorageSet(storage,
                            "expires_in", o.data.expires_in),
                            ExpiryKey, JsAdd(o.data.expires_in, JNum(now))),
                            "access_token", o.data.access_token),
                            "refresh_token", o.data.refresh_token)
                   /\ ev' = Event("getAccessTokenFromCodeThen", "stored", o)
              ELSE /\ ev' = Event("getAccessTokenFromCodeThen", "logged", o)
                   /\ UNCHANGED <<storage, accessToken, refreshToken>>
    /\ UNCHANGED <<variant, now, expiry, idToken, reqs, Popup>>

\* the request tokenRefresh() / refreshToken() sends
RefreshRequest == Request("refresh", JUndef, refreshToken, JUndef, JUndef, clientHeader)

\* tokenRefresh() / refreshToken(): authorize() when no access token is held,
\* then the refresh request in every case
tokenRefresh ==
    /\ IsPopupVariant
    /\ IF ~Truthy(accessToken)
       THEN \E r \in AuthorizeResults :
              /\ ApplyAuthorize(r)
              /\ IF r.res = "ReferenceError"
                 THEN /\ SendAll(r.sends)
                      /\ ev' = Event("tokenRefresh", "ReferenceError", NoOutcome)
                 ELSE /\ SendAll(Append(r.sends, RefreshRequest))
                      /\ ev' = Event("tokenRefresh", "sent", NoOutcome)
       ELSE /\ Send(RefreshRequest)
            /\ ev' = Event("tokenRefresh", "sent", NoOutcome)
            /\ UNCHANGED <<storage, codeVerifier, authCalls, windows, timers,
                           presented>>
    /\ UNCHANGED <<variant, now, Memory, clientHeader, cfg>>

\* the response handler of tokenRefresh
tokenRefreshThen ==
    /\ IsPopupVariant
    /\ \E i \in pending :
         /\ reqs[i].op = "refresh"
         /\ pending' = pending \ {i}
         /\ \E o \in Outcomes(i) :
              IF o.kind = "json"
              THEN /\ accessToken' = o.data.access_token
                   /\ storage' = StorageSet(storage, "access_token", o.data.access_token)
                   /\ ev' = Event("tokenRefreshThen", "stored", o)
              ELSE /\ ev' = Event("tokenRefreshThen", "logged", o)
                   /\ UNCHANGED <<storage, accessToken>>
    /\ UNCHANGED <<variant, now, refreshToken, expiry, idToken, reqs, Popup>>

\* the request revokeToken() of the popup managers sends
RevokeRequest == Request("revoke", JUndef, JUndef, accessToken, JUndef, clientHeader)

\* revokeToken() of the popup managers
revokeToken ==
    /\ IsPopupVariant
    /\ IF NoAccessToken
       THEN /\ ev' = Event("revokeToken", "NoAccessToken", NoOutcome)
            /\ UNCHANGED <<reqs, pending>>
       ELSE /\ Send(RevokeRequest)
            /\ ev' = Event("revokeToken", "sent", NoOutcome)
    /\ UNCHANGED <<variant, now, storage, Memory, Popup>>

\* the response handler of revokeToken
revokeTokenThen ==
    /\ IsPopupVariant
    /\ \E i \in pending :
         /\ reqs[i].op = "revoke"
         /\ pending' = pending \ {i}
         /\ \E o \in Outcomes(i) :
              IF o.kind = "json"
              THEN /\ accessToken' = JNull
                   /\ refreshToken' = JNull
                   /\ storage' = StorageRemove(StorageRemove(storage,
                                     "access_token"), "refresh_token")
                   /\ ev' = Event("revokeTokenThen", "cleared", o)
              ELSE /\ ev' = Event("revokeTokenThen", "logged", o)
                   /\ UNCHANGED <<storage, accessToken, refreshToken>>
    /\ UNCHANGED <<variant, now, expiry, idToken, reqs, Popup>>

\* logout(): revokeToken(), then the four removes
logout ==
    /\ variant = "legacy"
    /\ IF NoAccessToken
       THEN /\ ev' = Event("logout", "NoAccessToken", NoOutcome)
            /\ UNCHANGED <<storage, reqs, pending>>
       ELSE /\ Send(RevokeRequest)
            /\ storage' = StorageRemove(StorageRemove(StorageRemove(StorageRemove(
                              storage, "access_token"), "refresh_token"),
                              "expires_in"), "expires_at")
            /\ ev' = Event("logout", "returned", NoOutcome)
    /\ UNCHANGED <<variant, now, Memory, Popup>>

\* isTokenValid() of the legacy manager
isTokenValidLegacy ==
    LET expiresAt == StorageGet(storage, "expires_at")
    IN  IF ~Truthy(expiresAt) THEN "false"
        ELSE IF JsLess(JNum(now), expiresAt) THEN "true" ELSE "false"

\* isTokenValid() of src/index.js: expiresAt is not declared anywhere
isTokenValidJs ==
    LET expiresIn == StorageGet(storage, "expires_in")
    IN  IF ~Truthy(expiresIn) THEN "false" ELSE "ReferenceError"

\* isTokenValid(): "true", "false", or the error it raises
isTokenValid == IF variant = "js" THEN isTokenValidJs ELSE isTokenValidLegacy

\* the request getUserInfo() sends: the bearer is read from storage
UserInfoRequest ==
    Request("userinfo", JUndef, JUndef, JUndef, JUndef,
            StorageGet(storage, "access_token"))

\* how getUserInfo() starts: the error it throws or rejects with, or "sent".
\* Only the legacy manager asks isTokenValid() first.
getUserInfoStart ==
    IF variant = "legacy" /\ isTokenValid # "true" THEN "NoValidToken"
    ELSE IF ~Truthy(accessToken) THEN "NoAccessToken"
    ELSE "sent"

\* getUserInfo(), up to the fetch
getUserInfo ==
    /\ IsPopupVariant
    /\ IF getUserInfoStart = "sent"
       THEN Send(UserInfoRequest)
       ELSE UNCHANGED <<reqs, pending>>
    /\ ev' = Event("getUserInfo", getUserInfoStart, NoOutcome)
    /\ UNCHANGED <<variant, now, storage, Memory, Popup>>

\* what the caller of getUserInfo() gets once the fetch has settled. legacy:
\* the parsed body, or {error} from the catch block. js: nothing, the promise
\* chain is not returned, its data is dropped and its error is logged.
getUserInfoEnd(o) ==
    IF variant = "legacy"
    THEN IF o.kind = "json" THEN "resolved" ELSE "resolvedError"
    ELSE IF o.kind = "json" THEN "dropped" ELSE "logged"

\* the rest of getUserInfo
getUserInfoThen ==
    /\ IsPopupVariant
    /\ \E i \in pending :
         /\ reqs[i].op = "userinfo"
         /\ pending' = pending \ {i}
         /\ \E o \in UserInfoOutcomes(i) :
              ev' = Event("getUserInfoThen", getUserInfoEnd(o), o)
    /\ UNCHANGED <<variant, now, storage, Memory, reqs, Popup>>

\* the value login() resolves its promise with: Object.assign of the pending
\* promise of getUserInfo(), which has no own properties, and the token fields
\* as they are when login() runs
LoginValue ==
    [NoData EXCEPT !.access_token = accessToken,
                   !.refresh_token = refreshToken,
                   !.expires_at = StorageGet(storage, "expires_at"),
                   !.expires_in = StorageGet(storage, "expires_in")]

\* login(): authorize(), getUserInfo() and resolve(...) in one synchronous run.
\* getUserInfo is async: its errors reject its own promise, whose catch calls
\* reject after resolve has already settled the promise of login().
login ==
    /\ variant = "legacy"
    /\ \E r \in AuthorizeResults :
         /\ ApplyAuthorize(r)
         /\ SendAll(IF getUserInfoStart = "sent"
                    THEN Append(r.sends, UserInfoRequest) ELSE r.sends)
         /\ ev' = Event("login", "resolved",
                        [NoOutcome EXCEPT !.kind = r.opener, !.data = LoginValue])
    /\ UNCHANGED <<variant, now, Memory, clientHeader, cfg>>

---------------------------------------------------------------------------
(* The clock *)

Tick ==
    /\ \/ /\ now % 1000 <= MaxMs
          /\ now' = now + 1
       \/ /\ now \div 1000 < MaxSec
          /\ now' = now + 1000
    /\ ev' = Event("Tick", "", NoOutcome)
    /\ UNCHANGED <<variant, storage, Memory, Popup, reqs, pending>>

---------------------------------------------------------------------------

\* the state right after new OAuthManager(props, storage, hmacSecret) or
\* init(props) has returned, over the storage st
SetupOver(v, p, st) ==
    /\ variant = v
    /\ cfg = p
    /\ now = Epoch
    /\ storage = st
    /\ accessToken = loadTokens(st).accessToken
    /\ refreshToken = loadTokens(st).refreshToken
    /\ expiry = IF variant = "core" THEN loadTokens(st).expiry ELSE JUndef
    /\ idToken = IF variant = "core" THEN loadTokens(st).idToken ELSE JUndef
    /\ codeVerifier = JUndef
    /\ clientHeader = IF variant = "core" THEN JUndef
                      ELSE StorageGet(st, "access_token")
    /\ authCalls = 0
    /\ presented = <<>>
    /\ windows = <<>>
    /\ timers = <<>>
    /\ reqs = <<>>
    /\ pending = {}
    /\ ev = Event(IF variant = "core" THEN "constructor" ELSE "init", "returned",
                  NoOutcome)

\* the same over an empty storage
Setup(v, p) == SetupOver(v, p, EmptyStorage)

\* the storage an earlier session of the application has left: what a code
\* exchange answered with access token, refresh token and expires_in stores
StoredSession(v) ==
    IF v = "core"
    THEN [EmptyStorage EXCEPT !["access_token"] = Tok("A", 0),
                              !["refresh_token"] = Tok("R", 0),
                              !["expiry"] = JDec(Epoch + ExpiresIn * 1000)]
    ELSE [EmptyStorage EXCEPT !["access_token"] = Tok("A", 0),
                              !["refresh_token"] = Tok("R", 0),
                              !["expires_in"] = JDec(ExpiresIn),
                              ![IF v = "js" THEN "expiry" ELSE "expires_at"] =
                                  JDec(ExpiresIn + Epoch)]

\* the state after init(props) has thrown its validation error: no field of
\* the manager is set; cfg keeps the properties init was called with
SetupFailed(v, p) ==
    /\ variant = v
    /\ cfg = p
    /\ now = Epoch
    /\ storage = EmptyStorage
    /\ accessToken = JUndef
    /\ refreshToken = JUndef
    /\ expiry = JUndef
    /\ idToken = JUndef
    /\ codeVerifier = JUndef
    /\ clientHeader = JUndef
    /\ authCalls = 0
    /\ presented = <<>>
    /\ windows = <<>>
    /\ timers = <<>>
    /\ reqs = <<>>
    /\ pending = {}
    /\ ev = Event("init", "ConfigError", NoOutcome)

\* the manager was set up: its constructor or init() returned
Usable == ev.res # "ConfigError"

\* a manager set up by an application that passes its client id and redirect URI
Init ==
    \E v \in Variants : \E p \in PropsOf(v) :
        /\ p.clientId = JStr("app")
        /\ p.redirectUri = JStr("cb")
        /\ p.scope = AppScope
        /\ p.state = AppState(v)
        /\ Setup(v, p)

\* the operations of the core class, their continuations and the clock
NextCore ==
    \/ constructor
    \/ fetchToken
    \/ fetchTokenResume
    \/ refreshAccessToken
    \/ refreshAccessTokenResume
    \/ revokeTokenAsync
    \/ revokeTokenAsyncResume
    \/ Tick

\* the token operations of the three managers, their response handlers and the clock
NextTokens ==
    \/ NextCore
    \/ init
    \/ getAccessTokenFromCode
    \/ getAccessTokenFromCodeThen
    \/ tokenRefresh
    \/ tokenRefreshThen
    \/ revokeToken
    \/ revokeTokenThen
    \/ logout

\* the authorization flow of the popup managers: authorize(), the popup, the
\* polling timer and the code exchange it starts
NextFlows ==
    \/ authorize
    \/ PopupRedirects
    \/ PopupClosed
    \/ checkPopupUrl
    \/ getAccessTokenFromCodeThen

\* the user-info operations, after a code exchange
NextUserInfo ==
    \/ fetchToken
    \/ fetchTokenResume
    \/ getAccessTokenFromCode
    \/ getAccessTokenFromCodeThen
    \/ fetchUserInfo
    \/ fetchUserInfoResume
    \/ getUserInfo
    \/ getUserInfoThen
    \/ Tick

\* the authorization URLs the managers build
NextUrl ==
    \/ authorize
    \/ getAuthorizationUrl

\* login(), the flow it starts and the requests it sends
NextLogin ==
    \/ login
    \/ PopupRedirects
    \/ PopupClosed
    \/ checkPopupUrl
    \/ getAccessTokenFromCodeThen
    \/ getUserInfoThen

Next == NextTokens \/ NextFlows \/ NextUserInfo \/ NextLogin \/ NextUrl

Spec == Init /\ [][Next]_vars

\* the core class alone
InitCore == Init /\ variant = "core"
SpecCore == InitCore /\ [][NextCore]_vars

\* the token lifecycle alone: no popup is polled, no request is signed
InitTokens == Init /\ cfg.hmacSecret = JUndef
SpecTokens == InitTokens /\ [][NextTokens]_vars

\* the token lifecycle of a manager set up over the storage of an earlier session
InitSession ==
    \E v \in Variants : \E p \in PropsOf(v) :
        /\ p.clientId = JStr("app")
        /\ p.redirectUri = JStr("cb")
        /\ p.scope = AppScope
        /\ p.state = AppState(v)
        /\ p.hmacSecret = JUndef
        /\ SetupOver(v, p, StoredSession(v))
SpecSession == InitSession /\ [][NextTokens]_vars

\* the token lifecycle, with and without an HMAC secret
SpecSigning == Init /\ [][NextTokens]_vars

\* construction with any properties, and the code exchange on a manager that
\* was set up
InitConfig ==
    \E v \in Variants : \E p \in PropsOf(v) :
        /\ p.scope = AppScope
        /\ p.state = AppState(v)
        /\ IF InitThrows(v, p) THEN SetupFailed(v, p) ELSE Setup(v, p)
NextConfig ==
    /\ Usable
    /\ \/ constructor
       \/ init
       \/ fetchToken
       \/ fetchTokenResume
       \/ getAccessTokenFromCode
       \/ getAccessTokenFromCodeThen
SpecConfig == InitConfig /\ [][NextConfig]_vars

\* the user-info client, on a manager that can exchange a code
SpecUserInfo == Init /\ [][NextUserInfo]_vars

\* authorization URLs, for every scope and state the application can configure
InitUrl ==
    \E v \in Variants : \E p \in PropsOf(v) :
        /\ p.clientId = JStr("app")
        /\ p.redirectUri = JStr("cb")
        /\ Setup(v, p)
SpecUrl == InitUrl /\ [][NextUrl]_vars

\* login() on the manager that has it
InitLogin == Init /\ variant = "legacy"
SpecLogin == InitLogin /\ [][NextLogin]_vars

\* the authorization flows alone, on a popup manager
InitFlows == Init /\ IsPopupVariant
SpecFlows == InitFlows /\ [][NextFlows]_vars

---------------------------------------------------------------------------
(* Vocabulary of the properties *)

\* the persisted token keys of the manager at hand
TokenKeys ==
    IF variant = "core" THEN {"access_token", "refresh_token", "expiry", "id_token"}
    ELSE {"access_token", "refresh_token", "expires_in", ExpiryKey}

\* the key the absolute expiry is persisted under
AbsoluteExpiryKey == IF variant = "core" THEN "expiry" ELSE ExpiryKey

Empty(v) == v \in {JNull, JUndef}

\* the token endpoint answered with a success body carrying these fields
SuccessBody(e) == e.kind = "json" /\ e.status = 200 /\ Truthy(e.data.access_token)

\* the token endpoint answered, with a non-2xx status or without an access_token
FailureResponse(e) ==
    /\ e.kind \in {"json", "nojson"}
    /\ (e.status # 200 \/ ~Truthy(e.data.access_token))

\* the request the handler answers carried a refresh token
SentRefreshToken(e) == Truthy(reqs[e.req].refresh_token)

ExchangeHandlers == {"fetchTokenResume", "getAccessTokenFromCodeThen"}
RefreshHandlers == {"refreshAccessTokenResume", "tokenRefreshThen"}
RevokeHandlers == {"revokeTokenAsyncResume", "revokeTokenThen"}
RefreshCalls == {"refreshAccessToken", "tokenRefresh"}
RevokeCalls == {"revokeTokenAsync", "revokeToken"}
UserInfoCalls == {"fetchUserInfo", "getUserInfo"}
UserInfoHandlers == {"fetchUserInfoResume", "getUserInfoThen"}

\* the polling timers that are running
ActiveTimers == { k \in 1 .. Len(timers) : timers[k].active }

\* storage holds, under key k, exactly the value v of the in-memory field:
\* the key is absent when the field is empty, and holds the field's string otherwise
Mirrors(k, v) == StorageGet(storage, k) = (IF Empty(v) THEN JNull ELSE ToStr(v))

\* the names of the query parameters of a URL, in order
ParamNames(url) == [i \in 1 .. Len(url) |-> url[i][1]]

\* the value of the query parameter called name, JNull when there is none
ParamValue(url, name) ==
    IF \E i \in 1 .. Len(url) : url[i][1] = name
    THEN url[CHOOSE i \in 1 .. Len(url) : url[i][1] = name][2]
    ELSE JNull

\* the text a body field holds when an absent value was serialized into it
AbsentText == {ToStr(JUndef), ToStr(JNull)}

\* the operations whose requests go to the token and revoke endpoints
SignedOps == {"exchange", "refresh", "revoke"}

ExchangesSent == Cardinality({ i \in 1 .. Len(reqs) : reqs[i].op = "exchange" })

\* the token is valid now: isTokenValid() of the popup managers, and for the
\* core class, which has no such method, its expiry field against the clock
ValidNow ==
    IF variant = "core" THEN Truthy(expiry) /\ JsLess(JNum(now), expiry)
    ELSE isTokenValid = "true"

---------------------------------------------------------------------------
(* Properties *)

\* C1: right after a code exchange was answered with a success body
\* {access_token, refresh_token, expires_in}, the manager holds that access
\* token and refresh token, and storage holds them and, under the expiry key,
\* the time of the response plus expires_in * 1000.
C1_ExchangeStoresResponse ==
    ( /\ ev.op \in ExchangeHandlers
      /\ SuccessBody(ev)
      /\ Truthy(ev.data.refresh_token)
      /\ Truthy(ev.data.expires_in) )
    => /\ accessToken = ev.data.access_token
       /\ refreshToken = ev.data.refresh_token
       /\ variant = "core" => expiry = JNum(now + ev.data.expires_in.n * 1000)
       /\ StorageGet(storage, "access_token") = ev.data.access_token
       /\ StorageGet(storage, "refresh_token") = ev.data.refresh_token
       /\ StorageGet(storage, AbsoluteExpiryKey)
            = JDec(now + ev.data.expires_in.n * 1000)

\* C2: right after the request of revokeToken has finished, in whatever way,
\* the access token, refresh token and expiry in memory are empty and every
\* persisted token key is absent from storage.
C2_RevokeClears ==
    ev.op \in RevokeHandlers
    => /\ Empty(accessToken)
       /\ Empty(refreshToken)
       /\ Empty(expiry)
       /\ \A k \in TokenKeys : StorageGet(storage, k) = JNull

\* C3: a refresh called while no refresh token is held fails with the
\* no-refresh-token error, sends no request and starts no authorization flow.
C3_RefreshNeedsRefreshToken ==
    [][ (ev'.op \in RefreshCalls /\ ~Truthy(refreshToken))
        => /\ ev'.res = "NoRefreshToken"
           /\ UNCHANGED <<reqs, pending, authCalls, timers>> ]_vars

\* C4: isTokenValid() is true exactly when an absolute expiry is stored and the
\* clock is strictly before it, false otherwise, and never raises.
C4_Validity ==
    IsPopupVariant
    => LET stored == StorageGet(storage, AbsoluteExpiryKey)
       IN  isTokenValid =
             (IF stored.t = "decimal" /\ now < stored.n THEN "true" ELSE "false")

\* C5: when authorize() was called again while the first call's timer was still
\* polling, the two flows together start one code exchange, never a second one.
C5_OneExchange ==
    (Len(timers) >= 2 /\ timers[2].overlaps) => ExchangesSent <= 1

\* C6: right after logout() has returned or failed, every persisted token key
\* is absent from storage.
C6_LogoutClears ==
    ev.op = "logout" => \A k \in TokenKeys : StorageGet(storage, k) = JNull

\* C7: a code exchange answered with a non-2xx status or without an
\* access_token fails, and leaves the token state in memory and every persisted
\* key as they were.
C7_FailedExchangeKeepsState ==
    [][ (ev'.op \in ExchangeHandlers /\ FailureResponse(ev'))
        => /\ ev'.res = "rejected"
           /\ UNCHANGED <<storage, accessToken, refreshToken, expiry, idToken>> ]_vars

\* C8: a successful refresh leaves the refresh token, in memory and in storage,
\* as it was when the response carries no refresh_token, and makes it the
\* response's refresh_token when it carries one.
C8_RefreshKeepsRefreshToken ==
    [][ (ev'.op \in RefreshHandlers /\ SuccessBody(ev') /\ SentRefreshToken(ev'))
        => IF Truthy(ev'.data.refresh_token)
           THEN /\ refreshToken' = ev'.data.refresh_token
                /\ StorageGet(storage', "refresh_token") = ev'.data.refresh_token
           ELSE /\ refreshToken' = refreshToken
                /\ StorageGet(storage', "refresh_token")
                     = StorageGet(storage, "refresh_token") ]_vars

\* C9: right after a successful refresh whose response carries access_token and
\* expires_in, the access token is the response's and the token is valid.
C9_RefreshUpdatesExpiry ==
    ( /\ ev.op \in RefreshHandlers
      /\ SuccessBody(ev)
      /\ SentRefreshToken(ev)
      /\ Truthy(ev.data.expires_in) )
    => /\ accessToken = ev.data.access_token
       /\ StorageGet(storage, "access_token") = ev.data.access_token
       /\ ValidNow

\* C10: revokeToken called while no access token is held fails with the
\* no-access-token error, sends no request and leaves memory and storage as
\* they were.
C10_RevokeNeedsAccessToken ==
    [][ (ev'.op \in RevokeCalls /\ ~Truthy(accessToken))
        => /\ ev'.res = "NoAccessToken"
           /\ UNCHANGED <<reqs, pending, storage, accessToken, refreshToken,
                          expiry, idToken>> ]_vars

\* revokeToken has refused to run for lack of an access token, on a manager
\* that holds other token state
C10_Witness ==
    /\ ev.op \in RevokeCalls
    /\ ev.res = "NoAccessToken"
    /\ ~Truthy(accessToken)
    /\ \E k \in TokenKeys : StorageGet(storage, k) # JNull

\* C11: a user-info call made while the token is not valid (expired, or no
\* expiry known) fails and sends no request, even when an access token is held.
C11_UserInfoNeedsValidToken ==
    [][ (ev'.op \in UserInfoCalls /\ ~ValidNow)
        => /\ ev'.res \in {"NoValidToken", "NoAccessToken"}
           /\ UNCHANGED <<reqs, pending>> ]_vars

\* C12: a manager whose constructor or init() returned has a non-empty
\* clientId and a non-empty redirectUri: construction with either of them
\* missing or empty fails with the configuration error.
C12_ConfigValidated ==
    Usable => Truthy(cfg.clientId) /\ Truthy(cfg.redirectUri)

\* C13: the poll tick that finds the popup closed by the user before it reached
\* the redirect URI ends the flow with a user-cancelled error and stops a timer.
C13_CancelReported ==
    [][ ( /\ ev'.op = "checkPopupUrl"
          /\ \A k \in ActiveTimers :
                windows[timers[k].win].closed /\ windows[timers[k].win].loc = "auth" )
        => /\ ev'.res = "UserCancelled"
           /\ Cardinality(ActiveTimers') < Cardinality(ActiveTimers) ]_vars

\* C14: a call of authorize() whose custom opener threw does not end normally
\* (returned, or the error only logged) and sends no code exchange.
C14_OpenerErrorSurfaced ==
    [][ (ev'.op = "authorize" /\ ev'.kind = "openerThrew")
        => /\ ev'.res \notin {"returned", "logged"}
           /\ UNCHANGED <<reqs, pending>> ]_vars

\* C15: a response handler whose fetch() was rejected by the transport ends in
\* a rejection its caller sees, never in a normal completion or a logged error.
C15_TransportFailurePropagated ==
    ev.kind = "reject" => ev.res = "rejected"

\* C16: every request sent to the token or revoke endpoint carries, when an
\* HMAC secret is configured, the signature header with the signature of the
\* body string of that same request, and carries no signature header when no
\* secret is configured.
C16_RequestsSigned ==
    \A i \in 1 .. Len(reqs) :
        reqs[i].op \in SignedOps
        => reqs[i].signature =
             (IF Truthy(cfg.hmacSecret)
              THEN generateHmacSignature(JsonStringify(reqs[i]))
              ELSE JUndef)

\* with a secret configured, a code exchange and then a revoke were sent, each
\* signed over its own body
C16_Witness ==
    /\ Truthy(cfg.hmacSecret)
    /\ Len(reqs) = 2
    /\ reqs[1].op = "exchange"
    /\ reqs[2].op = "revoke"
    /\ reqs[1].signature # reqs[2].signature
    /\ reqs[2].signature = generateHmacSignature(JsonStringify(reqs[2]))

\* C17: when the promise of login() resolves, the flow login() started has
\* finished its code exchange (no timer polls, no request is in flight), and
\* the value carries the access token the manager now holds and the user
\* details of the user-info endpoint.
C17_LoginAfterExchange ==
    (ev.op = "login" /\ ev.res = "resolved")
    => /\ ActiveTimers = {}
       /\ pending = {}
       /\ Truthy(ev.data.access_token)
       /\ ev.data.access_token = accessToken
       /\ Truthy(ev.data.sub)

\* C18: right after a successful code exchange, refresh or revoke, every
\* persisted token key holds in storage exactly what the in-memory field holds,
\* and is absent when the field is empty.
C18_Mirror ==
    ( \/ ev.op \in ExchangeHandlers \cup RefreshHandlers /\ SuccessBody(ev)
      \/ ev.op \in RevokeHandlers /\ ev.kind = "json" /\ ev.status = 200 )
    => /\ Mirrors("access_token", accessToken)
       /\ Mirrors("refresh_token", refreshToken)
       /\ variant = "core" => Mirrors("expiry", expiry) /\ Mirrors("id_token", idToken)

\* C19: at most one polling timer is running at any moment.
C19_OneListener ==
    Cardinality(ActiveTimers) <= 1

\* C20: a poll tick that runs while every running timer watches a popup that
\* is closed or has reached the redirect URI clears a timer.
C20_PollingStops ==
    [][ ( /\ ev'.op = "checkPopupUrl"
          /\ \A k \in ActiveTimers :
                windows[timers[k].win].closed \/ windows[timers[k].win].loc = "redirect" )
        => Cardinality(ActiveTimers') < Cardinality(ActiveTimers) ]_vars

\* C21: in the popup flow of a single authorize() call, a request is sent only
\* by the poll tick that observes the open popup at the redirect URI with a
\* code; that tick sends the first and only code exchange, with that code and,
\* when PKCE is enabled, with the verifier of that flow.
C21_OneExchangePerFlow ==
    [][ (authCalls' = 1 /\ cfg.openWindow = "undefined")
        => IF /\ ev'.op = "checkPopupUrl"
              /\ \E k \in ActiveTimers :
                    /\ ~windows[timers[k].win].closed
                    /\ windows[timers[k].win].loc = "redirect"
                    /\ Truthy(windows[timers[k].win].code)
           THEN /\ reqs = <<>>
                /\ Len(reqs') = 1
                /\ reqs'[1].op = "exchange"
                /\ reqs'[1].code = windows[timers[1].win].code
                /\ cfg.withPKCE => reqs'[1].code_verifier = timers[1].verifier
           ELSE reqs' = reqs ]_vars

\* the one flow of a PKCE manager has sent its code exchange and its timer is
\* cleared
C21_Witness ==
    /\ authCalls = 1
    /\ cfg.withPKCE
    /\ ev.op = "checkPopupUrl"
    /\ ev.res = "exchange"
    /\ ~timers[1].active
    /\ Len(reqs) = 1
    /\ reqs[1].code_verifier = timers[1].verifier

\* C22: a poll tick that runs while every running timer watches a popup that
\* is open on the authorization server's origin only logs the error of reading
\* its location: timers, windows, requests and token state stay as they were.
C22_CrossOriginSwallowed ==
    [][ ( /\ ev'.op = "checkPopupUrl"
          /\ \A k \in ActiveTimers :
                ~windows[timers[k].win].closed /\ windows[timers[k].win].loc = "auth" )
        => /\ ev'.res = "logged"
           /\ UNCHANGED <<timers, windows, reqs, pending, storage, accessToken,
                          refreshToken>> ]_vars

\* a poll tick has logged a cross-origin error and its timer is still running
C22_Witness ==
    /\ ev.op = "checkPopupUrl"
    /\ ev.res = "logged"
    /\ ActiveTimers # {}
    /\ \A k \in ActiveTimers : windows[timers[k].win].loc = "auth"

\* C23: with PKCE enabled, at the moment an authorization URL is handed to the
\* popup or the opener, storage holds under code_verifier a verifier no earlier
\* call stored, and the code_challenge of the URL is derived from that verifier.
C23_VerifierStoredFirst ==
    (IsPopupVariant /\ cfg.withPKCE)
    => \A i \in 1 .. Len(presented) :
          /\ Truthy(presented[i].stored)
          /\ ParamValue(presented[i].url, "code_challenge") = sha256(presented[i].stored)
          /\ \A j \in 1 .. Len(presented) :
                i # j => presented[i].stored # presented[j].stored

\* two authorization URLs were handed out by a PKCE manager
C23_Witness ==
    /\ IsPopupVariant
    /\ cfg.withPKCE
    /\ Len(presented) = 2
    /\ ParamValue(presented[2].url, "code_challenge") = sha256(codeVerifier)

\* C24: every authorization URL carries its query parameters in the order
\* client_id, redirect_uri, response_type, scope, state, code_challenge,
\* code_challenge_method, with scope exactly when a non-empty scope is
\* configured, state always, and the two PKCE parameters exactly when PKCE is
\* enabled, code_challenge_method being S256.
C24_UrlParameters ==
    \A i \in 1 .. Len(presented) :
        /\ ParamNames(presented[i].url) =
             << "client_id", "redirect_uri", "response_type" >>
             \o (IF Truthy(cfg.scope) THEN << "scope" >> ELSE << >>)
             \o << "state" >>
             \o (IF cfg.withPKCE
                 THEN << "code_challenge", "code_challenge_method" >> ELSE << >>)
        /\ cfg.withPKCE
             => ParamValue(presented[i].url, "code_challenge_method") = JStr("S256")

\* C25: whenever a code exchange or refresh answered with expires_in > 0 writes
\* the absolute expiry key, the value it writes is the time of the response in
\* milliseconds plus expires_in * 1000.
C25_ExpiryInMilliseconds ==
    [][ ( /\ ev'.op \in ExchangeHandlers \cup RefreshHandlers
          /\ ev'.kind = "json"
          /\ Truthy(ev'.data.expires_in)
          /\ StorageGet(storage', AbsoluteExpiryKey) # StorageGet(storage, AbsoluteExpiryKey) )
        => StorageGet(storage', AbsoluteExpiryKey)
             = JDec(now + ev'.data.expires_in.n * 1000) ]_vars

\* C26: a manager constructed over the storage a successful exchange, refresh
\* or revoke has just left holds in memory the token state the first manager
\* held: the same access token, refresh token, id token and expiry.
C26_Rehydration ==
    [][ ( /\ ev'.op \in {"constructor", "init"}
          /\ \/ ev.op \in ExchangeHandlers \cup RefreshHandlers /\ SuccessBody(ev)
             \/ ev.op \in RevokeHandlers /\ ev.kind = "json" /\ ev.status = 200 )
        => /\ accessToken' = accessToken
           /\ refreshToken' = refreshToken
           /\ variant = "core" => idToken' = idToken /\ expiry' = expiry ]_vars

\* C27: every code-exchange request carries the code, carries code_verifier
\* exactly when PKCE is enabled, and carries no field whose value is the text of
\* an absent value.
C27_ExchangeRequestBody ==
    \A i \in 1 .. Len(reqs) :
        reqs[i].op = "exchange"
        => /\ Truthy(reqs[i].code)
           /\ (reqs[i].code_verifier # JUndef) <=> cfg.withPKCE
           /\ reqs[i].code \notin AbsentText
           /\ reqs[i].code_verifier \notin AbsentText

\* C28: with PKCE enabled, the poll tick that sends a code exchange sends the
\* verifier of the flow whose timer it is: the verifier that flow's authorize()
\* call generated and put, as a challenge, in its authorization URL.
C28_VerifierOfOwnFlow ==
    [][ (cfg.withPKCE /\ ev'.op = "checkPopupUrl" /\ ev'.res = "exchange")
        => \E k \in ActiveTimers :
              /\ ~timers'[k].active
              /\ reqs'[Len(reqs')].code_verifier = timers[k].verifier ]_vars

\* C29: the successful response to a code exchange or refresh that was sent
\* before a revoke or logout, handled on a manager that holds no access token
\* in memory or in storage, leaves the manager without an access token.
C29_NoResurrection ==
    [][ ( /\ ev'.op \in ExchangeHandlers \cup RefreshHandlers
          /\ SuccessBody(ev')
          /\ \E j \in ev'.req + 1 .. Len(reqs) : reqs[j].op = "revoke"
          /\ ~Truthy(accessToken)
          /\ StorageGet(storage, "access_token") = JNull )
        => /\ ~Truthy(accessToken')
           /\ StorageGet(storage', "access_token") = JNull ]_vars

\* C30: every refresh and revoke request that tokenRefresh, revokeToken or
\* logout sends carries in its Authorization header the access token the
\* manager holds when the request is sent, whenever it holds one.
C30_BearerIsCurrent ==
    [][ \A j \in Len(reqs) + 1 .. Len(reqs') :
          (/\ ev'.op \in {"tokenRefresh", "revokeToken", "logout"}
           /\ reqs'[j].op \in {"refresh", "revoke"}
           /\ Truthy(accessToken))
          => reqs'[j].bearer = accessToken ]_vars

\* C31: the poll tick that finds an open popup at the redirect URI without a
\* code clears its timer, closes the popup and sends no request; that tick, and
\* the authorize() call that opened the popup, leave the in-memory token state
\* and every persisted token key as they were.
C31_RedirectWithoutCode ==
    [][ /\ (ev'.op = "checkPopupUrl" /\ ev'.res = "nocode")
           => /\ \E k \in ActiveTimers :
                    /\ ~windows[timers[k].win].closed
                    /\ windows[timers[k].win].loc = "redirect"
                    /\ ~Truthy(windows[timers[k].win].code)
                    /\ ~timers'[k].active
                    /\ windows'[timers[k].win].closed
              /\ reqs' = reqs
        /\ (\/ ev'.op = "checkPopupUrl" /\ ev'.res = "nocode"
            \/ ev'.op = "authorize" /\ ev'.res = "polling")
           => /\ Memory' = Memory
              /\ \A key \in TokenKeys :
                    StorageGet(storage', key) = StorageGet(storage, key)
        /\ (/\ ev'.op = "checkPopupUrl"
            /\ \A k \in ActiveTimers :
                  /\ ~windows[timers[k].win].closed
                  /\ windows[timers[k].win].loc = "redirect"
                  /\ ~Truthy(windows[timers[k].win].code))
           => ev'.res = "nocode" ]_vars

\* a manager that holds an access token has just seen a popup come back without
\* a code: the timer is cleared, the popup closed, the token still held
C31_Witness ==
    /\ ev.op = "checkPopupUrl"
    /\ ev.res = "nocode"
    /\ Truthy(accessToken)
    /\ StorageGet(storage, "access_token") = accessToken
    /\ \E k \in 1 .. Len(timers) :
          /\ ~timers[k].active
          /\ windows[timers[k].win].closed
          /\ windows[timers[k].win].loc = "redirect"
          /\ ~Truthy(windows[timers[k].win].code)

=============================================================================
